---- MODULE Spec2Model ----
(***************************************************************************)
(* Model of the Traeger number and sensor platforms:                       *)
(*   custom_components/traeger/number.py  CookCycNumberEntity (the cook    *)
(*       cycle sequencer) and TraegerNumberEntity (the cook timer);        *)
(*   custom_components/traeger/sensor.py  ProbeState (the probe state      *)
(*       classifier) and HeatingState (the heating state classifier).      *)
(*                                                                         *)
(* Numbers that the code passes through Python's round() as minutes        *)
(* (a step's time_set, the timer's value) are kept in HALF units, so that  *)
(* round()'s half-to-even rule is part of the model: 20 stands for 10.0,   *)
(* 3 for 1.5.  Temperatures are integers, on which round() is the          *)
(* identity.                                                               *)
(***************************************************************************)
EXTENDS Integers, Sequences, FiniteSets, TLC

VARIABLES
    grill_state,     \* the entities' snapshot (None before the first telemetry)
    grill_features,  \* the grill's feature record (super_smoke_enabled)
    grill_limits,    \* the grill's limits record (max_grill_temp)
    cook_cycle,      \* CookCycNumberEntity.cook_cycle
    num_value,       \* CookCycNumberEntity.num_value
    old_num_value,   \* CookCycNumberEntity.old_num_value
    tasks,           \* number.set_value service calls created, not yet run
    cmds,            \* the service calls the latest operation created
    ret,             \* the step the latest operation returned (NoValue: none)
    arrived,         \* steps entered and recorded since the last setCurrentStep
    last,            \* a record of the latest operation and the path it took
    pc,              \* where native_value stands: "idle" between evaluations,
                     \* "serving" past the guards of lines 95-111
    probe_grill_state,           \* ProbeState.grill_state
    grill_accessory,             \* ProbeState.grill_accessory
    grill_units,                 \* ProbeState.grill_units
    probe_previous_target_temp,  \* ProbeState.previous_target_temp
    probe_alarm,                 \* ProbeState.probe_alarm, the alarm latch
    alarm_seen,                  \* alarm seen, no target or mode reset since
    alarm_held,                  \* alarm seen, no reset of any kind since
    outage_passed,               \* the sensor's data was unavailable since the
                                 \* alarm was last seen
    outage_read,                 \* available was read as False since the alarm
                                 \* was last seen
    probe_last,                  \* a record of the probe sensor's latest read
    heat_grill_state,            \* HeatingState.grill_state
    heat_units,                  \* HeatingState.grill_units
    heat_previous_target_temp,   \* HeatingState.previous_target_temp
    previous_state,              \* HeatingState.previous_state
    heat_last                    \* a record of the heating sensor's latest read

seqvars == <<grill_state, grill_features, grill_limits, cook_cycle, num_value,
             old_num_value, tasks, cmds, ret, arrived, last, pc>>

probevars == <<probe_grill_state, grill_accessory, grill_units,
               probe_previous_target_temp, probe_alarm, alarm_seen,
               alarm_held, outage_passed, outage_read, probe_last>>

heatvars == <<heat_grill_state, heat_units, heat_previous_target_temp,
              previous_state, heat_last>>

vars == <<seqvars, probevars, heatvars>>

----------------------------------------------------------------------------
(* Bounds of the model.                                                    *)

\* longest step sequence set_custom_cook is given
MaxLen == 2
\* largest timer value (in halves) a caller passes to the timer entity
MaxValue == 5

----------------------------------------------------------------------------
(* const.py: the grill's system_status values.                             *)

GRILL_MODE_OFFLINE == 99
GRILL_MODE_SHUTDOWN == 9
GRILL_MODE_COOL_DOWN == 8
GRILL_MODE_CUSTOM_COOK == 7
GRILL_MODE_MANUAL_COOK == 6
GRILL_MODE_PREHEATING == 5
GRILL_MODE_IGNITING == 4
GRILL_MODE_IDLE == 3
GRILL_MODE_SLEEPING == 2

GrillModes ==
    {GRILL_MODE_OFFLINE, GRILL_MODE_SHUTDOWN, GRILL_MODE_COOL_DOWN,
     GRILL_MODE_CUSTOM_COOK, GRILL_MODE_MANUAL_COOK, GRILL_MODE_PREHEATING,
     GRILL_MODE_IGNITING, GRILL_MODE_IDLE, GRILL_MODE_SLEEPING}

\* the spec's "active cooking" modes
ActiveModes ==
    {GRILL_MODE_IGNITING, GRILL_MODE_PREHEATING, GRILL_MODE_MANUAL_COOK,
     GRILL_MODE_CUSTOM_COOK}

\* Python's None
None == [none |-> TRUE]

\* an evaluation that raised returned nothing
NoValue == 0 - 1

----------------------------------------------------------------------------
(* Python's round() on a non-negative number of halves: half to even.      *)

PyRound(h) ==
    LET q == h \div 2
    IN  IF h % 2 = 0 THEN q
        ELSE IF q % 2 = 0 THEN q ELSE q + 1

----------------------------------------------------------------------------
(* The service calls the sequencer creates (hass.services.async_call).     *)

Call(svc, entity, arg) == [svc |-> svc, entity |-> entity, arg |-> arg]

Has(step, key) == key \in DOMAIN step

----------------------------------------------------------------------------
(* CookCycNumberEntity.native_value, number.py 89-253.                     *)

\* "B.Cook Cycles out of indexes" with the bound off by one
OutOfRangeOffByOne(num, cyc) ==
    num > Len(cyc) + 1

\* "B.Cook Cycles out of indexes"
OutOfRange(num, cyc) ==
    num > Len(cyc)

\* the not-cooking modes without idle
NotCookingModesNoIdle ==
    {GRILL_MODE_COOL_DOWN, GRILL_MODE_SLEEPING, GRILL_MODE_SHUTDOWN}

\* the modes in which a running cycle is reverted to step 0
NotCookingModes ==
    {GRILL_MODE_COOL_DOWN, GRILL_MODE_SLEEPING, GRILL_MODE_SHUTDOWN,
     GRILL_MODE_IDLE}

\* "Steps not available when not cooking"
NotCooking(num, S) ==
    num > 0 /\ S.system_status \in NotCookingModes

\* "Scan for next step advance" runs
ShouldScan(num, old) ==
    num > 0 /\ num = old

\* the scan with a use_timer step advancing on the probe alarm
AdvanceCondAlarm(curstep, S) ==
    IF Has(curstep, "use_timer")
    THEN curstep.use_timer /\ S.probe_alarm_fired
    ELSE IF S.probe_alarm_fired THEN TRUE
    ELSE IF Has(curstep, "act_temp_adv")
    THEN S.grill > curstep.act_temp_adv
    ELSE IF Has(curstep, "probe_act_temp_adv")
    THEN S.probe > curstep.probe_act_temp_adv
    ELSE FALSE

\* whether the scan advances num_value by one
AdvanceCond(curstep, S) ==
    IF Has(curstep, "use_timer")
    THEN curstep.use_timer /\ S.cook_timer_complete
    ELSE IF S.probe_alarm_fired THEN TRUE
    ELSE IF Has(curstep, "act_temp_adv")
    THEN S.grill > curstep.act_temp_adv
    ELSE IF Has(curstep, "probe_act_temp_adv")
    THEN S.probe > curstep.probe_act_temp_adv
    ELSE FALSE

\* "In step change" applies to the step
HasDelta(curstep) ==
    Has(curstep, "min_delta") /\ Has(curstep, "max_grill_delta_temp")

\* the step as the scan leaves it in cook_cycle (the dict is changed in place)
ClampStep(curstep, lim) ==
    IF HasDelta(curstep) /\ curstep.max_grill_delta_temp > lim.max_grill_temp
    THEN [curstep EXCEPT !.max_grill_delta_temp = lim.max_grill_temp]
    ELSE curstep

\* the "raise the grill target by 5" call of the scan; curstep is clamped
RaiseCmds(curstep, S) ==
    IF /\ HasDelta(curstep)
       /\ S.set < curstep.max_grill_delta_temp
       /\ S.probe > S.set - curstep.min_delta
    THEN <<Call("climate.set_temperature", "climate", S.set + 5)>>
    ELSE <<>>

\* "Implement next step" without the once-per-step test
ShouldEnterEveryTime(num, old) ==
    num > 0

\* "Implement next step" runs: "Only hit once per step"
ShouldEnter(num, old) ==
    num > 0 /\ num # old

TimerCmds(curstep) ==
    IF Has(curstep, "time_set")
    THEN <<Call("number.set_value", "cook_timer", PyRound(curstep.time_set))>>
    ELSE <<>>

ProbeTargetCmds(curstep) ==
    IF Has(curstep, "probe_set_temp")
    THEN <<Call("climate.set_temperature", "probe_p0", curstep.probe_set_temp)>>
    ELSE <<>>

GrillTargetCmds(curstep) ==
    IF Has(curstep, "set_temp")
    THEN <<Call("climate.set_temperature", "climate", curstep.set_temp)>>
    ELSE <<>>

SmokeCmds(curstep, S, feat) ==
    IF /\ Has(curstep, "smoke")
       /\ feat.super_smoke_enabled = 1
       /\ S.smoke # curstep.smoke
       /\ S.set <= 225
    THEN IF curstep.smoke = 1
         THEN <<Call("switch.turn_on", "smoke", 0)>>
         ELSE <<Call("switch.turn_off", "smoke", 0)>>
    ELSE <<>>

KeepwarmCmds(curstep, S) ==
    IF Has(curstep, "keepwarm") /\ S.keepwarm # curstep.keepwarm
    THEN IF curstep.keepwarm = 1
         THEN <<Call("switch.turn_on", "keepwarm", 0)>>
         ELSE <<Call("switch.turn_off", "keepwarm", 0)>>
    ELSE <<>>

\* no step ends the cycle
IsShutdownNever(curstep) ==
    FALSE

IsShutdown(curstep) ==
    Has(curstep, "shutdown") /\ curstep.shutdown = 1

ShutdownCmds(curstep) ==
    IF IsShutdown(curstep)
    THEN <<Call("climate.set_hvac_mode", "climate", 0)>>
    ELSE <<>>

\* the entry calls with the shutdown call created first
EntryCmdsShutdownFirst(curstep, S, feat) ==
    ShutdownCmds(curstep) \o TimerCmds(curstep) \o ProbeTargetCmds(curstep)
        \o GrillTargetCmds(curstep) \o SmokeCmds(curstep, S, feat)
        \o KeepwarmCmds(curstep, S)

\* the calls created on entering a step, in the order of the code
EntryCmds(curstep, S, feat) ==
    TimerCmds(curstep) \o ProbeTargetCmds(curstep) \o GrillTargetCmds(curstep)
        \o SmokeCmds(curstep, S, feat) \o KeepwarmCmds(curstep, S)
        \o ShutdownCmds(curstep)

\* the number.set_value calls among the entry calls, as queued tasks; time_set
\* is the step's value the call was made from
TimerTasks(curstep) ==
    IF Has(curstep, "time_set")
    THEN <<[value |-> PyRound(curstep.time_set), time_set |-> curstep.time_set]>>
    ELSE <<>>

\* "A.Cook Cycles out of indexes": the value returned
FinalClamp(num, cyc) ==
    IF num > Len(cyc) THEN 0 ELSE num

\* what one evaluation does: the fields after it, the calls, the path taken
\* (raised is the temperature of the scan's raise call, NoValue without one)
Outcome(num, old, cyc, c, t, r, exit, scan, adv, ent, raised) ==
    [num |-> num, old |-> old, cyc |-> cyc, cmds |-> c, tasks |-> t,
     ret |-> r, exit |-> exit, scanned |-> scan, advanced |-> adv,
     entered |-> ent, raised |-> raised]

\* the evaluation from line 112 on: the snapshot is there, num is in range
ServeCycle(S, cyc, num, old, lim, feat) ==
    LET scan == ShouldScan(num, old)
        adv  == scan /\ AdvanceCond(cyc[num], S)
        num1 == IF adv THEN num + 1 ELSE num
        cyc1 == IF scan THEN [cyc EXCEPT ![num] = ClampStep(cyc[num], lim)]
                ELSE cyc
        rc   == IF scan THEN RaiseCmds(cyc1[num], S) ELSE <<>>
        rt   == IF rc = <<>> THEN NoValue ELSE rc[1].arg
    IN  IF ShouldEnter(num1, old)
        THEN IF num1 > Len(cyc1)
             \* cook_cycle[num_value - 1] raises IndexError: the fields stay
             \* as the scan left them, nothing is returned
             THEN Outcome(num1, old, cyc1, rc, <<>>, NoValue, "raise", scan, adv,
                          0, rt)
             ELSE LET curstep == cyc1[num1]
                      num2 == IF IsShutdown(curstep) THEN 0 ELSE num1
                  IN  Outcome(FinalClamp(num2, cyc1), num2, cyc1,
                              rc \o EntryCmds(curstep, S, feat),
                              TimerTasks(curstep),
                              FinalClamp(num2, cyc1), "done", scan, adv, num1,
                              rt)
        ELSE Outcome(FinalClamp(num1, cyc1), num1, cyc1, rc, <<>>,
                     FinalClamp(num1, cyc1), "done", scan, adv, 0, rt)

\* native_value
NativeValue(S, cyc, num, old, lim, feat) ==
    IF S = None
    THEN Outcome(0, old, cyc, <<>>, <<>>, 0, "unavailable", FALSE, FALSE, 0,
                 NoValue)
    ELSE IF OutOfRange(num, cyc)
    THEN Outcome(0, old, cyc, <<>>, <<>>, 0, "out_of_range", FALSE, FALSE, 0,
                 NoValue)
    ELSE IF NotCooking(num, S)
    THEN Outcome(0, old, cyc, <<>>, <<>>, 0, "not_cooking", FALSE, FALSE, 0,
                 NoValue)
    ELSE ServeCycle(S, cyc, num, old, lim, feat)

----------------------------------------------------------------------------
(* TraegerNumberEntity.async_set_native_value, number.py 374-386.          *)
(* value is in halves.                                                     *)

\* the mode test with igniting left out
TimerModeOkStrict(state) ==
    GRILL_MODE_IGNITING < state /\ state <= GRILL_MODE_CUSTOM_COOK

TimerModeOk(state) ==
    GRILL_MODE_IGNITING <= state /\ state <= GRILL_MODE_CUSTOM_COOK

TimerSeconds(value) ==
    PyRound(value) * 60

TimerResult(result, sec) == [result |-> result, sec |-> sec]

SetTimerValue(value, S) ==
    IF S = None
    THEN TimerResult("return", NoValue)
    ELSE IF TimerModeOk(S.system_status)
    THEN IF value >= 2
         THEN TimerResult("set_timer_sec", TimerSeconds(value))
         ELSE TimerResult("reset_timer", NoValue)
    ELSE TimerResult("raise", NoValue)

----------------------------------------------------------------------------
(* The inputs of the sequencer and the timer.                              *)

Snap(mode, tc, pa, g, p, s, sm, kw) ==
    [system_status |-> mode, cook_timer_complete |-> tc,
     probe_alarm_fired |-> pa, grill |-> g, probe |-> p, set |-> s,
     smoke |-> sm, keepwarm |-> kw]

\* every mode with the timer and alarm flags clear, and cooking and idle
\* snapshots that differ in the flags, the temperatures and the switches
Snapshots ==
    {Snap(m, FALSE, FALSE, 180, 150, 165, 0, 0) : m \in GrillModes}
    \cup {Snap(GRILL_MODE_MANUAL_COOK, TRUE, FALSE, 180, 150, 165, 0, 0),
          Snap(GRILL_MODE_MANUAL_COOK, FALSE, TRUE, 180, 150, 165, 0, 0),
          Snap(GRILL_MODE_MANUAL_COOK, TRUE, TRUE, 180, 150, 165, 0, 0),
          Snap(GRILL_MODE_IDLE, TRUE, TRUE, 180, 150, 165, 0, 0),
          Snap(GRILL_MODE_CUSTOM_COOK, FALSE, FALSE, 230, 200, 230, 1, 1),
          Snap(GRILL_MODE_CUSTOM_COOK, FALSE, FALSE, 230, 140, 165, 1, 0)}

StepTimed      == [time_set |-> 20]
StepUseTimer   == [time_set |-> 20, use_timer |-> TRUE]
StepShutdown   == [set_temp |-> 225, shutdown |-> 1]
StepSmoke      == [time_set |-> 3, probe_set_temp |-> 150, smoke |-> 1,
                   keepwarm |-> 1, act_temp_adv |-> 200]

StepCatalogue == {StepTimed, StepUseTimer, StepShutdown, StepSmoke}

\* the step sequences set_custom_cook is given: up to MaxLen different steps
Cycles ==
    {c \in UNION {[1..n -> StepCatalogue] : n \in 0..MaxLen} :
        \A i, j \in DOMAIN c : i # j => c[i] # c[j]}

\* the values setCurrentStep is given: every step, and one past the longest
StepValues == 0..(MaxLen + 1)

SuperSmoke == [super_smoke_enabled |-> 1]
NoSuperSmoke == [super_smoke_enabled |-> 0]

\* what a refresh brings: a snapshot with the grill's features; the grill
\* without super smoke is seen in one cooking snapshot
Refreshes ==
    {<<S, SuperSmoke>> : S \in Snapshots \cup {None}}
    \cup {<<Snap(GRILL_MODE_CUSTOM_COOK, FALSE, FALSE, 230, 140, 165, 0, 0),
            NoSuperSmoke>>}

Limits == {[max_grill_temp |-> 500]}

----------------------------------------------------------------------------
(* The operations.                                                         *)

\* the record of an evaluation: value is what setCurrentStep was given (NoValue
\* when the value was read for another reason), reloaded tells that the
\* evaluation is the first after set_custom_cook
EvalRecord(value, r) ==
    [op |-> "evaluate", value |-> value, exit |-> r.exit,
     reloaded |-> (last.op = "set_custom_cook"),
     scanned |-> r.scanned, advanced |-> r.advanced, entered |-> r.entered,
     raised |-> r.raised]

\* one read of native_value against snapshot S with num_value = num0; base is
\* the set of steps arrived at so far.  The event loop runs a call the
\* sequencer created before the value is read again, so at most one call waits.
Evaluate(value, S, feat, num0, base) ==
    LET r == NativeValue(S, cook_cycle, num0, old_num_value, grill_limits, feat)
    IN  /\ tasks = <<>>
        /\ grill_state' = S
        /\ grill_features' = feat
        /\ cook_cycle' = r.cyc
        /\ num_value' = r.num
        /\ old_num_value' = r.old
        /\ tasks' = tasks \o r.tasks
        /\ cmds' = r.cmds
        /\ ret' = r.ret
        /\ arrived' = IF r.entered > 0 /\ r.old = r.entered
                      THEN base \cup {r.entered} ELSE base
        /\ last' = EvalRecord(value, r)
        /\ UNCHANGED <<grill_limits, pc>>

\* the client has a new snapshot: the entity's callback refreshes grill_state
\* and grill_features, and the value is read
Telemetry(S, feat) ==
    /\ Evaluate(NoValue, S, feat, num_value, arrived)
    /\ UNCHANGED <<probevars, heatvars>>

\* another caller runs client.grill_callback: the value is read again
GrillCallback ==
    /\ Evaluate(NoValue, grill_state, grill_features, num_value, arrived)
    /\ UNCHANGED <<probevars, heatvars>>

\* CookCycNumberEntity.async_set_native_value: setCurrentStep
SetCurrentStep(value) ==
    /\ Evaluate(value, grill_state, grill_features, value, {})
    /\ UNCHANGED <<probevars, heatvars>>

\* set_custom_cook resetting the step index
SetCustomCookResets(steps) ==
    /\ cook_cycle' = steps
    /\ num_value' = 0
    /\ old_num_value' = 0
    /\ cmds' = <<>>
    /\ ret' = NoValue
    /\ last' = [op |-> "set_custom_cook"]
    /\ UNCHANGED <<grill_state, grill_features, grill_limits, tasks, arrived,
                   pc>>
    /\ UNCHANGED <<probevars, heatvars>>

\* CookCycNumberEntity.set_custom_cook: setCustomCookCycle; the callback it
\* schedules on the loop is GrillCallback
SetCustomCook(steps) ==
    /\ cook_cycle' = steps
    /\ cmds' = <<>>
    /\ ret' = NoValue
    /\ last' = [op |-> "set_custom_cook"]
    /\ UNCHANGED <<grill_state, grill_features, grill_limits, num_value,
                   old_num_value, tasks, arrived, pc>>
    /\ UNCHANGED <<probevars, heatvars>>

TimerRecord(src, value, time_set, r) ==
    [op |-> "timer", src |-> src, value |-> value, time_set |-> time_set,
     result |-> r.result, sec |-> r.sec]

\* the oldest number.set_value call the sequencer created runs: the timer
\* entity is given its value
RunTask ==
    /\ tasks # <<>>
    /\ tasks' = Tail(tasks)
    /\ last' = TimerRecord("cook_cycle", 2 * Head(tasks).value,
                           Head(tasks).time_set,
                           SetTimerValue(2 * Head(tasks).value, grill_state))
    /\ cmds' = <<>>
    /\ ret' = NoValue
    /\ UNCHANGED <<grill_state, grill_features, grill_limits, cook_cycle,
                   num_value, old_num_value, arrived, pc>>
    /\ UNCHANGED <<probevars, heatvars>>

\* any other caller sets the timer
TimerSetValue(value) ==
    /\ last' = TimerRecord("caller", value, NoValue,
                           SetTimerValue(value, grill_state))
    /\ cmds' = <<>>
    /\ ret' = NoValue
    /\ UNCHANGED <<grill_state, grill_features, grill_limits, cook_cycle,
                   num_value, old_num_value, tasks, arrived, pc>>
    /\ UNCHANGED <<probevars, heatvars>>

ProbeInit(units) ==
    /\ probe_grill_state = None
    /\ grill_accessory = None
    /\ grill_units = units
    /\ probe_previous_target_temp = NoValue
    /\ probe_alarm = FALSE
    /\ alarm_seen = FALSE
    /\ alarm_held = FALSE
    /\ outage_passed = FALSE
    /\ outage_read = FALSE
    /\ probe_last = [op |-> "init"]

SeqInit ==
    /\ grill_state = None
    /\ grill_features = SuperSmoke
    /\ grill_limits \in Limits
    /\ cook_cycle = <<>>
    /\ num_value = 0
    /\ old_num_value = 0
    /\ tasks = <<>>
    /\ cmds = <<>>
    /\ ret = NoValue
    /\ arrived = {}
    /\ last = [op |-> "init"]
    /\ pc = "idle"

\* HeatingState.__init__
HeatInit(units) ==
    /\ heat_grill_state = None
    /\ heat_units = units
    /\ heat_previous_target_temp = NoValue
    /\ previous_state = "idle"
    /\ heat_last = [op |-> "init"]

Init == SeqInit /\ ProbeInit("F") /\ HeatInit("F")

Next ==
    \/ \E u \in Refreshes : Telemetry(u[1], u[2])
    \/ GrillCallback
    \/ \E value \in StepValues : SetCurrentStep(value)
    \/ \E steps \in Cycles : SetCustomCook(steps)
    \/ RunTask

Spec == Init /\ [][Next]_vars

\* the timer entity with its callers
NextTimer ==
    \/ \E u \in Refreshes : Telemetry(u[1], u[2])
    \/ \E value \in 0..MaxValue : TimerSetValue(value)

SpecTimer == Init /\ [][NextTimer]_vars

----------------------------------------------------------------------------
(* The sequencer with steps that carry use_timer false, the raise keys     *)
(* min_delta and max_grill_delta_temp, and a shutdown next to every other  *)
(* entry key.                                                              *)

StepNoTimer    == [use_timer |-> FALSE, act_temp_adv |-> 170]
StepDelta      == [min_delta |-> 20, max_grill_delta_temp |-> 227]
StepDeltaMax   == [min_delta |-> 20, max_grill_delta_temp |-> 600,
                   probe_act_temp_adv |-> 495]
StepShutdownAll == [time_set |-> 20, probe_set_temp |-> 150, set_temp |-> 165,
                    smoke |-> 0, keepwarm |-> 1, shutdown |-> 1]

DeltaCatalogue ==
    {StepUseTimer, StepNoTimer, StepDelta, StepDeltaMax, StepShutdownAll}

DeltaCycles ==
    {c \in UNION {[1..n -> DeltaCatalogue] : n \in 0..MaxLen} :
        \A i, j \in DOMAIN c : i # j => c[i] # c[j]}

\* cooking snapshots with the probe near and far below the target, the target
\* below and at the device's maximum, and the timer and alarm flags; an idle
\* snapshot; no snapshot
DeltaSnapshots ==
    {Snap(GRILL_MODE_MANUAL_COOK, FALSE, FALSE, 180, 210, 225, 1, 0),
     Snap(GRILL_MODE_MANUAL_COOK, FALSE, TRUE, 180, 210, 225, 1, 0),
     Snap(GRILL_MODE_MANUAL_COOK, TRUE, FALSE, 180, 150, 225, 0, 0),
     Snap(GRILL_MODE_MANUAL_COOK, FALSE, FALSE, 480, 490, 498, 0, 0),
     Snap(GRILL_MODE_MANUAL_COOK, FALSE, FALSE, 480, 496, 500, 0, 0),
     Snap(GRILL_MODE_IDLE, FALSE, FALSE, 180, 150, 225, 0, 0)}

DeltaRefreshes ==
    {<<S, SuperSmoke>> : S \in DeltaSnapshots \cup {None}}

NextDelta ==
    \/ \E u \in DeltaRefreshes : Telemetry(u[1], u[2])
    \/ GrillCallback
    \/ \E value \in StepValues : SetCurrentStep(value)
    \/ \E steps \in DeltaCycles : SetCustomCook(steps)
    \/ RunTask

SpecDelta == Init /\ [][NextDelta]_vars

----------------------------------------------------------------------------
(* One run of a cook cycle: a snapshot arrives, a sequence whose last step *)
(* has shutdown set is loaded, setCurrentStep starts it, and from then on   *)
(* only snapshots in active cooking modes arrive.  The event loop runs the  *)
(* calls the sequencer created, and a snapshot under which the current     *)
(* step advances arrives in the end.                                       *)

RunCatalogue ==
    {StepTimed, StepUseTimer, StepSmoke, StepShutdown, StepShutdownAll}

\* sequences of up to MaxLen + 1 different steps, the last one with shutdown
RunCycles ==
    {c \in UNION {[1..n -> RunCatalogue] : n \in 1..(MaxLen + 1)} :
        /\ \A i, j \in DOMAIN c : i # j => c[i] # c[j]
        /\ Has(c[Len(c)], "shutdown")
        /\ c[Len(c)].shutdown = 1}

RunSnapshots ==
    {S \in Snapshots : S.system_status \in ActiveModes}

RunTelemetry(S) ==
    /\ last.op # "set_custom_cook"
    /\ Telemetry(S, SuperSmoke)

RunLoad(steps) ==
    /\ last.op = "evaluate"
    /\ cook_cycle = <<>>
    /\ SetCustomCook(steps)

RunStart(value) ==
    /\ last.op = "set_custom_cook"
    /\ value \in 1..Len(cook_cycle)
    /\ SetCurrentStep(value)

\* a snapshot arrives under which the step the sequencer is on advances
RunAdvance ==
    \E S \in RunSnapshots : RunTelemetry(S) /\ last'.advanced

NextRun ==
    \/ \E S \in RunSnapshots : RunTelemetry(S)
    \/ \E steps \in RunCycles : RunLoad(steps)
    \/ \E value \in StepValues : RunStart(value)
    \/ RunTask

SpecRun ==
    Init /\ [][NextRun]_vars /\ WF_vars(RunTask) /\ WF_vars(RunAdvance)

----------------------------------------------------------------------------
(* set_custom_cook beside a running evaluation.  set_custom_cook is a plain *)
(* method: the service runs it on a worker thread (it hands the callback   *)
(* to the loop with run_coroutine_threadsafe), while native_value runs on   *)
(* the event loop, and nothing locks cook_cycle.  The threads can switch    *)
(* between the range guard of line 98 and the step reads of lines 115 and  *)
(* 155; the evaluation is split there.                                     *)

\* lines 95-111: a snapshot is there and no guard returns; the evaluation
\* stands before line 112
EvalBegin(S, feat) ==
    /\ pc = "idle"
    /\ tasks = <<>>
    /\ S # None
    /\ ~OutOfRange(num_value, cook_cycle)
    /\ ~NotCooking(num_value, S)
    /\ grill_state' = S
    /\ grill_features' = feat
    /\ pc' = "serving"
    /\ cmds' = <<>>
    /\ ret' = NoValue
    /\ last' = [op |-> "begin", raced |-> FALSE]
    /\ UNCHANGED <<grill_limits, cook_cycle, num_value, old_num_value, tasks,
                   arrived>>
    /\ UNCHANGED <<probevars, heatvars>>

\* lines 299-302 on the worker thread while the evaluation stands before
\* line 112
RaceSetCustomCook(steps) ==
    /\ pc = "serving"
    /\ cook_cycle' = steps
    /\ last' = [last EXCEPT !.raced = TRUE]
    /\ UNCHANGED <<grill_state, grill_features, grill_limits, num_value,
                   old_num_value, tasks, cmds, ret, arrived, pc>>
    /\ UNCHANGED <<probevars, heatvars>>

\* lines 112-253 against the sequence as it is now: with num_value > 0 the
\* scan (line 115) or the entry (line 155) reads cook_cycle[num_value - 1]
\* first, which raises IndexError past the end of the list
ServeAfterGuards(S, cyc, num, old, lim, feat) ==
    IF num > 0 /\ num > Len(cyc)
    THEN Outcome(num, old, cyc, <<>>, <<>>, NoValue, "raise", FALSE, FALSE, 0,
                 NoValue)
    ELSE ServeCycle(S, cyc, num, old, lim, feat)

\* the evaluation runs from line 112 to its end; read is the position of the
\* first step it read (0: none) and len the length of the sequence then
EvalEnd ==
    LET r == ServeAfterGuards(grill_state, cook_cycle, num_value,
                              old_num_value, grill_limits, grill_features)
    IN  /\ pc = "serving"
        /\ pc' = "idle"
        /\ cook_cycle' = r.cyc
        /\ num_value' = r.num
        /\ old_num_value' = r.old
        /\ tasks' = tasks \o r.tasks
        /\ cmds' = r.cmds
        /\ ret' = r.ret
        /\ arrived' = IF r.entered > 0 /\ r.old = r.entered
                      THEN arrived \cup {r.entered} ELSE arrived
        /\ last' = [op |-> "evaluate", value |-> NoValue, exit |-> r.exit,
                    reloaded |-> FALSE, scanned |-> r.scanned,
                    advanced |-> r.advanced, entered |-> r.entered,
                    raised |-> r.raised, raced |-> last.raced,
                    read |-> num_value, len |-> Len(cook_cycle)]
        /\ UNCHANGED <<grill_state, grill_features, grill_limits>>
        /\ UNCHANGED <<probevars, heatvars>>

\* snapshots of one cooking mode: the timer flag clear and set
RaceSnapshots ==
    {Snap(GRILL_MODE_MANUAL_COOK, tc, FALSE, 180, 150, 165, 0, 0) :
        tc \in BOOLEAN}

NextRace ==
    \/ \E S \in RaceSnapshots : EvalBegin(S, SuperSmoke)
    \/ \E steps \in Cycles : RaceSetCustomCook(steps)
    \/ EvalEnd
    \/ pc = "idle" /\ \E S \in RaceSnapshots : Telemetry(S, SuperSmoke)
    \/ pc = "idle" /\ GrillCallback
    \/ pc = "idle" /\ \E value \in StepValues : SetCurrentStep(value)
    \/ pc = "idle" /\ \E steps \in Cycles : SetCustomCook(steps)
    \/ pc = "idle" /\ RunTask

SpecRace == Init /\ [][NextRace]_vars

----------------------------------------------------------------------------
(* ProbeState, sensor.py 261-357.  The accessory record holds the fields   *)
(* the code reads: con, and the probe's set_temp, get_temp and, when the   *)
(* accessory reports it, alarm_fired.  previous_target_temp = None is      *)
(* NoValue, which no target equals.                                        *)

\* ProbeState.active_modes
active_modes ==
    {GRILL_MODE_PREHEATING, GRILL_MODE_IGNITING, GRILL_MODE_CUSTOM_COOK,
     GRILL_MODE_MANUAL_COOK}

\* fell_out_temp
FellOutTemp(units) ==
    IF units = "C" THEN 102 ELSE 215

\* close_temp with the Fahrenheit value for both units
CloseTempFahrenheit(units) ==
    5

\* close_temp
CloseTemp(units) ==
    IF units = "C" THEN 3 ELSE 5

\* the latch update with "and target_temp != 0" left out
LatchAfterAnyTarget(A, S, prev, latch) ==
    IF ~Has(A, "alarm_fired") THEN FALSE
    ELSE IF A.alarm_fired THEN TRUE
    ELSE IF \/ A.set_temp # prev
            \/ S.system_status \notin active_modes
    THEN FALSE
    ELSE latch

\* "Latch probe alarm, reset if target changed or grill leaves active modes"
LatchAfter(A, S, prev, latch) ==
    IF ~Has(A, "alarm_fired") THEN FALSE
    ELSE IF A.alarm_fired THEN TRUE
    ELSE IF \/ (A.set_temp # prev /\ A.set_temp # 0)
            \/ S.system_status \notin active_modes
    THEN FALSE
    ELSE latch

\* the label with the latch tested before the fell-out temperature
ProbeLabelLatchFirst(A, S, units, latch) ==
    IF latch THEN "at_temp"
    ELSE IF A.get_temp >= FellOutTemp(units) THEN "fell_out"
    ELSE IF A.set_temp # 0 /\ S.system_status \in active_modes
    THEN IF A.get_temp + CloseTemp(units) >= A.set_temp
         THEN "close" ELSE "set"
    ELSE "idle"

\* the label, given the latch as the update left it
ProbeLabel(A, S, units, latch) ==
    IF A.get_temp >= FellOutTemp(units) THEN "fell_out"
    ELSE IF latch THEN "at_temp"
    ELSE IF A.set_temp # 0 /\ S.system_status \in active_modes
    THEN IF A.get_temp + CloseTemp(units) >= A.set_temp
         THEN "close" ELSE "set"
    ELSE "idle"

\* ProbeState.state: the label, the latch and previous_target_temp after it
ProbeStateOf(A, S, units, prev, latch) ==
    IF A = None
    THEN [label |-> "idle", latch |-> latch, prev |-> prev]
    ELSE LET l1 == LatchAfter(A, S, prev, latch)
             label == ProbeLabel(A, S, units, l1)
         IN  [label |-> label,
              latch |-> IF label = "idle" THEN FALSE ELSE l1,
              prev |-> A.set_temp]

\* ProbeState.available: what it returns
ProbeAvailableOf(A, S) ==
    IF S = None \/ ~S.connected \/ A = None
    THEN FALSE
    ELSE A.con

\* ProbeState.grill_accessory_update: the snapshot, the accessory and the
\* units are read again from the client
GrillAccessoryUpdate(S, A, units) ==
    /\ probe_grill_state' = S
    /\ grill_accessory' = A
    /\ grill_units' = units
    /\ outage_passed' = IF ProbeAvailableOf(A, S) THEN outage_passed ELSE TRUE
    /\ probe_last' = [op |-> "update"]
    /\ UNCHANGED <<probe_previous_target_temp, probe_alarm, alarm_seen,
                   alarm_held, outage_read>>
    /\ UNCHANGED <<seqvars, heatvars>>

\* ProbeState.available: "Reset probe alarm if accessory becomes unavailable",
\* "Reset probe alarm if accessory is not connected"
LatchAfterAvailable(a, latch) ==
    IF a THEN latch ELSE FALSE

\* a read of ProbeState.available: the latch is cleared when it is False
ProbeAvailable ==
    LET a == ProbeAvailableOf(grill_accessory, probe_grill_state)
    IN  /\ probe_alarm' = LatchAfterAvailable(a, probe_alarm)
        /\ alarm_held' = IF a THEN alarm_held ELSE FALSE
        /\ outage_read' = IF a THEN outage_read ELSE TRUE
        /\ probe_last' = [op |-> "available", available |-> a]
        /\ UNCHANGED <<probe_grill_state, grill_accessory, grill_units,
                       probe_previous_target_temp, alarm_seen, outage_passed>>
        /\ UNCHANGED <<seqvars, heatvars>>

\* the evaluation sees the alarm fired
SeesAlarm(A) ==
    Has(A, "alarm_fired") /\ A.alarm_fired

\* the evaluation sees the target changed to a nonzero value, or the grill
\* outside the active-cooking modes
SeesReset(A, S, prev) ==
    \/ (A.set_temp # prev /\ A.set_temp # 0)
    \/ S.system_status \notin ActiveModes

\* a read of ProbeState.state
ProbeStateRead ==
    LET A == grill_accessory
        S == probe_grill_state
        r == ProbeStateOf(A, S, grill_units, probe_previous_target_temp,
                          probe_alarm)
    IN  /\ probe_alarm' = r.latch
        /\ probe_previous_target_temp' = r.prev
        /\ alarm_seen' =
              IF A = None THEN alarm_seen
              ELSE IF SeesAlarm(A) THEN TRUE
              ELSE IF SeesReset(A, S, probe_previous_target_temp) THEN FALSE
              ELSE alarm_seen
        /\ alarm_held' =
              IF A = None THEN alarm_held
              ELSE IF SeesAlarm(A) THEN TRUE
              ELSE IF \/ SeesReset(A, S, probe_previous_target_temp)
                      \/ ~Has(A, "alarm_fired")
              THEN FALSE
              ELSE alarm_held
        /\ outage_passed' =
              IF A # None /\ SeesAlarm(A) THEN FALSE ELSE outage_passed
        /\ outage_read' =
              IF A # None /\ SeesAlarm(A) THEN FALSE ELSE outage_read
        /\ probe_last' = [op |-> "state", label |-> r.label]
        /\ UNCHANGED <<probe_grill_state, grill_accessory, grill_units>>
        /\ UNCHANGED <<seqvars, heatvars>>

ProbeSnap(mode, connected) ==
    [system_status |-> mode, connected |-> connected]

ProbeSnapshots ==
    {ProbeSnap(m, TRUE) :
        m \in {GRILL_MODE_IDLE, GRILL_MODE_IGNITING, GRILL_MODE_MANUAL_COOK,
               GRILL_MODE_CUSTOM_COOK, GRILL_MODE_COOL_DOWN}}
    \cup {ProbeSnap(GRILL_MODE_MANUAL_COOK, FALSE)}

TargetTemps == {0, 104, 214}

ProbeTemps == {100, 102, 210, 215}

\* the accessories: connected ones with every target, temperature and alarm
\* report (absent, false, true), and a disconnected one
Accessories ==
    {[con |-> TRUE, set_temp |-> t, get_temp |-> g] :
        t \in TargetTemps, g \in ProbeTemps}
    \cup {[con |-> TRUE, set_temp |-> t, get_temp |-> g, alarm_fired |-> a] :
        t \in TargetTemps, g \in ProbeTemps, a \in BOOLEAN}
    \cup {[con |-> FALSE, set_temp |-> 214, get_temp |-> 100,
           alarm_fired |-> FALSE]}

\* what the client holds: no snapshot and so no accessory, or a snapshot
\* with or without the accessory
ProbeUpdates ==
    {<<None, None>>}
    \cup {<<S, A>> : S \in ProbeSnapshots, A \in Accessories \cup {None}}

NextProbe ==
    \/ \E u \in ProbeUpdates : GrillAccessoryUpdate(u[1], u[2], grill_units)
    \/ ProbeAvailable
    \/ ProbeStateRead

InitProbe ==
    SeqInit /\ HeatInit("F") /\ \E units \in {"C", "F"} : ProbeInit(units)

SpecProbe == InitProbe /\ [][NextProbe]_vars


----------------------------------------------------------------------------
(* HeatingState, sensor.py 174-258.  The snapshot holds the fields the     *)
(* code reads: set, system_status and grill.  previous_target_temp = None  *)
(* is NoValue, which no target equals.                                     *)

\* const.py: the lowest grill temperature that counts as cooking
GRILL_MIN_TEMP_C == 75
GRILL_MIN_TEMP_F == 165

\* HeatingState.preheat_modes
preheat_modes == {GRILL_MODE_PREHEATING, GRILL_MODE_IGNITING}

\* HeatingState.cook_modes
cook_modes == {GRILL_MODE_CUSTOM_COOK, GRILL_MODE_MANUAL_COOK}

\* target_changed
TargetChanged(target_temp, prev) ==
    target_temp # prev

\* min_cook_temp
MinCookTemp(units) ==
    IF units = "C" THEN GRILL_MIN_TEMP_C ELSE GRILL_MIN_TEMP_F

\* temp_swing with the Fahrenheit value for both units
TempSwingFahrenheit(units) ==
    20

\* temp_swing
TempSwing(units) ==
    IF units = "C" THEN 11 ELSE 20

\* the label of the preheat modes
PreheatLabel(current_temp, units) ==
    IF current_temp < MinCookTemp(units) THEN "preheating" ELSE "heating"

\* the hysteresis with under_temp and over_temp leading straight to each other
HysteresisLabelNoBand(prev, current_temp, target_temp, units) ==
    LET low_temp  == target_temp - TempSwing(units)
        high_temp == target_temp + TempSwing(units)
    IN  IF prev \in {"heating", "preheating"}
        THEN IF current_temp >= target_temp THEN "at_temp" ELSE "heating"
        ELSE IF prev = "cooling"
        THEN IF current_temp <= target_temp THEN "at_temp" ELSE "cooling"
        ELSE IF prev \in {"at_temp", "under_temp", "over_temp"}
        THEN IF current_temp > high_temp THEN "over_temp"
             ELSE IF current_temp < low_temp THEN "under_temp"
             ELSE "at_temp"
        ELSE "none"

\* the hysteresis of the cook modes: the label that follows prev, "none" when
\* prev is none of the labels the code tests ("Catch all if coming from
\* idle/unavailable")
HysteresisLabel(prev, current_temp, target_temp, units) ==
    LET low_temp  == target_temp - TempSwing(units)
        high_temp == target_temp + TempSwing(units)
    IN  IF prev \in {"heating", "preheating"}
        THEN IF current_temp >= target_temp THEN "at_temp" ELSE "heating"
        ELSE IF prev = "cooling"
        THEN IF current_temp <= target_temp THEN "at_temp" ELSE "cooling"
        ELSE IF prev = "at_temp"
        THEN IF current_temp > high_temp THEN "over_temp"
             ELSE IF current_temp < low_temp THEN "under_temp"
             ELSE "at_temp"
        ELSE IF prev = "under_temp"
        THEN IF current_temp > low_temp THEN "at_temp" ELSE "under_temp"
        ELSE IF prev = "over_temp"
        THEN IF current_temp < high_temp THEN "at_temp" ELSE "over_temp"
        ELSE "none"

\* the label of the cook modes with a target change left unnoticed
CookLabelNoTargetChange(prev, prev_target, current_temp, target_temp, units) ==
    LET h == HysteresisLabel(prev, current_temp, target_temp, units)
    IN  IF h = "none"
        THEN IF current_temp <= target_temp THEN "heating" ELSE "cooling"
        ELSE h

\* the label of the cook modes
CookLabel(prev, prev_target, current_temp, target_temp, units) ==
    LET h == HysteresisLabel(prev, current_temp, target_temp, units)
        target_changed == TargetChanged(target_temp, prev_target) \/ h = "none"
    IN  IF target_changed
        THEN IF current_temp <= target_temp THEN "heating" ELSE "cooling"
        ELSE h

\* the label for a snapshot
HeatLabel(S, units, prev, prev_target) ==
    IF S.system_status \in preheat_modes
    THEN PreheatLabel(S.grill, units)
    ELSE IF S.system_status \in cook_modes
    THEN CookLabel(prev, prev_target, S.grill, S.set, units)
    ELSE IF S.system_status = GRILL_MODE_COOL_DOWN THEN "cool_down"
    ELSE "idle"

\* HeatingState.state storing "idle" when there is no snapshot
HeatingStateOfStoresIdle(S, units, prev, prev_target) ==
    IF S = None
    THEN [label |-> "idle", prev |-> "idle", prev_target |-> prev_target]
    ELSE [label |-> HeatLabel(S, units, prev, prev_target),
          prev |-> HeatLabel(S, units, prev, prev_target),
          prev_target |-> S.set]

\* HeatingState.state: the label, previous_state and previous_target_temp
\* after it
HeatingStateOf(S, units, prev, prev_target) ==
    IF S = None
    THEN [label |-> "idle", prev |-> prev, prev_target |-> prev_target]
    ELSE [label |-> HeatLabel(S, units, prev, prev_target),
          prev |-> HeatLabel(S, units, prev, prev_target),
          prev_target |-> S.set]

\* the entity's callback: grill_state is read again from the client
HeatRefresh(S) ==
    /\ heat_grill_state' = S
    /\ heat_last' = [op |-> "update"]
    /\ UNCHANGED <<heat_units, heat_previous_target_temp, previous_state>>
    /\ UNCHANGED <<seqvars, probevars>>

\* a read of HeatingState.state; from and changed are previous_state and the
\* comparison of the targets as the read found them
HeatingStateRead ==
    LET S == heat_grill_state
        r == HeatingStateOf(S, heat_units, previous_state,
                            heat_previous_target_temp)
    IN  /\ previous_state' = r.prev
        /\ heat_previous_target_temp' = r.prev_target
        /\ heat_last' = [op |-> "state", label |-> r.label,
                         from |-> previous_state,
                         changed |-> IF S = None THEN FALSE
                                     ELSE S.set # heat_previous_target_temp]
        /\ UNCHANGED <<heat_grill_state, heat_units>>
        /\ UNCHANGED <<seqvars, probevars>>

HeatSnap(mode, target_temp, current_temp) ==
    [system_status |-> mode, set |-> target_temp, grill |-> current_temp]

HeatModes ==
    {GRILL_MODE_IDLE, GRILL_MODE_IGNITING, GRILL_MODE_MANUAL_COOK,
     GRILL_MODE_CUSTOM_COOK, GRILL_MODE_COOL_DOWN}

HeatTargets == {225, 250}

\* grill temperatures: below and above the minimum cook temperatures, and at
\* and next to the edges of the swing around 225 in both units
HeatTemps == {70, 170, 204, 205, 213, 214, 225, 236, 237, 245, 246}

HeatSnapshots ==
    {HeatSnap(m, t, g) : m \in HeatModes, t \in HeatTargets, g \in HeatTemps}

NextHeat ==
    \/ \E S \in HeatSnapshots \cup {None} : HeatRefresh(S)
    \/ HeatingStateRead

InitHeat ==
    SeqInit /\ ProbeInit("F") /\ \E units \in {"C", "F"} : HeatInit(units)

SpecHeat == InitHeat /\ [][NextHeat]_vars


----------------------------------------------------------------------------
(* The claims about the sequencer and the timer.                           *)

IsEval == last.op = "evaluate"

IsTimer == last.op = "timer"

\* the modes the claims call not cooking: cool_down, sleeping, shutdown, idle
StopModes ==
    {GRILL_MODE_COOL_DOWN, GRILL_MODE_SLEEPING, GRILL_MODE_SHUTDOWN,
     GRILL_MODE_IDLE}

HasSnapshot == grill_state # None

InStopMode == HasSnapshot /\ grill_state.system_status \in StopModes

InActiveMode == HasSnapshot /\ grill_state.system_status \in ActiveModes

\* C1: an evaluation against a snapshot whose mode is cool_down, sleeping,
\* shutdown or idle returns index 0 and creates no calls, whatever the step
\* index and the step sequence were.
C1_StopModeReturnsZero ==
    (IsEval /\ InStopMode) =>
        (last.exit # "raise" /\ ret = 0 /\ num_value = 0 /\ cmds = <<>>)

\* C1's case: setCurrentStep(k), k a step of the sequence, in a stop mode
C1_Witness ==
    /\ IsEval /\ InStopMode
    /\ last.value \in 1..Len(cook_cycle)
    /\ ret = 0

\* C2: the index an evaluation returns is within 0..N, N the length of the
\* step sequence, and an evaluation that starts with an index above N returns 0.
\* The index it starts with is the value setCurrentStep was given, or num_value.
C2_IndexInRange ==
    [][last'.op = "evaluate" =>
        LET start == IF last'.value # NoValue THEN last'.value ELSE num_value
        IN  /\ last'.exit # "raise" => ret' \in 0..Len(cook_cycle')
            /\ start > Len(cook_cycle) => ret' = 0]_vars

\* C2's case: setCurrentStep with a value above N has returned 0
C2_Witness ==
    /\ IsEval
    /\ last.value > Len(cook_cycle)
    /\ ret = 0

\* C3: an evaluation that starts on the last step (i = N = i_prev) and finds
\* its advance condition true ends without raising, creates no step-entry
\* calls and returns 0.
C3_LastStepAdvanceClamped ==
    [][(/\ last'.op = "evaluate"
        /\ last'.value = NoValue
        /\ num_value = Len(cook_cycle)
        /\ num_value > 0
        /\ num_value = old_num_value
        /\ last'.advanced)
       => (last'.exit # "raise" /\ last'.entered = 0 /\ ret' = 0)]_vars

\* the first calls of the step-2 entry in C4
C4_ShutdownCalls ==
    <<Call("climate.set_temperature", "climate", 225),
      Call("climate.set_hvac_mode", "climate", 0)>>

\* C4 for the sequence <<first, {set_temp, shutdown}>>: on step 1, a read
\* against an active-mode snapshot with cook_timer_complete set enters step 2,
\* creates its calls and returns 0.
C4_TimerCompleteAdvances(first) ==
    (/\ cook_cycle = <<first, StepShutdown>>
     /\ num_value = 1
     /\ old_num_value = 1
     /\ last'.op = "evaluate"
     /\ last'.value = NoValue
     /\ grill_state' # None
     /\ grill_state'.system_status \in ActiveModes
     /\ grill_state'.cook_timer_complete)
    => (/\ last'.advanced
        /\ last'.entered = 2
        /\ cmds' = C4_ShutdownCalls
        /\ ret' = 0
        /\ num_value' = 0)

\* C4 as claimed: steps = [{time_set: T}, {set_temp: X, shutdown: 1}], index
\* on step 1; a snapshot with cook_timer_complete makes the index advance to
\* step 2, whose calls are created and whose shutdown resets the index.
C4_Original ==
    [][C4_TimerCompleteAdvances(StepTimed)]_vars

\* C4 as amended: the same when step 1 also has use_timer true.
C4_UseTimerAdvances ==
    [][C4_TimerCompleteAdvances(StepUseTimer)]_vars

\* C4's case: the timer completed on step 1 of <<use_timer step, shutdown step>>
C4_Witness ==
    /\ IsEval
    /\ cook_cycle = <<StepUseTimer, StepShutdown>>
    /\ InActiveMode
    /\ grill_state.cook_timer_complete
    /\ ~grill_state.probe_alarm_fired
    /\ last.advanced
    /\ last.entered = 2
    /\ ret = 0

\* C5: a step's time_set = T ends as setTimerSeconds(T): when the timer entity
\* runs the sequencer's number.set_value call in an active mode it calls
\* set_timer_sec with exactly T (time_set is in halves, sec in units).
C5_TimerSetToTimeSet ==
    (IsTimer /\ last.src = "cook_cycle" /\ InActiveMode) =>
        (last.result = "set_timer_sec" /\ 2 * last.sec = last.time_set)

\* C6: setCurrentStep(k), 1 <= k <= N, with a snapshot in an active mode: the
\* evaluation it triggers enters step k (creates step k's entry calls).
C6_SetStepEnters ==
    (IsEval /\ last.value \in 1..Len(cook_cycle) /\ InActiveMode) =>
        last.entered = last.value

\* C7: a read of the value that is not triggered by setCurrentStep never
\* enters a step that was entered and recorded since the last setCurrentStep.
C7_EntryOnce ==
    [][(last'.op = "evaluate" /\ last'.value = NoValue /\ last'.entered > 0)
       => last'.entered \notin arrived]_vars

\* C7's case: a read found the sequencer on a step it had arrived at, a step
\* with entry calls, ran the scan and created no entry call
C7_Witness ==
    /\ IsEval
    /\ last.value = NoValue
    /\ last.scanned
    /\ last.entered = 0
    /\ num_value \in arrived
    /\ num_value = old_num_value
    /\ cook_cycle[num_value] = StepTimed
    /\ cmds = <<>>

\* what C8 says the timer entity does with a value in an active mode
C8_ActiveOutcome ==
    IF last.value >= 2
    THEN last.result = "set_timer_sec" /\ last.sec = PyRound(last.value) * 60
    ELSE last.result = "reset_timer"

\* C8 as claimed: outside the active modes, no snapshot included, setting the
\* timer raises "not supported"; in an active mode a value >= 1 calls
\* set_timer_sec(round(value) * 60) and a value < 1 calls reset_timer.
C8_Original ==
    IsTimer =>
        IF InActiveMode THEN C8_ActiveOutcome ELSE last.result = "raise"

\* C8 as amended: with a snapshot outside the active modes setting the timer
\* raises; with no snapshot it returns with no call and no error; in an
\* active mode as claimed.
C8_TimerSetValue ==
    IsTimer =>
        IF InActiveMode THEN C8_ActiveOutcome
        ELSE IF HasSnapshot THEN last.result = "raise"
        ELSE last.result = "return"

\* C8's case: a caller set the timer while the grill was idle
C8_Witness ==
    /\ IsTimer
    /\ last.src = "caller"
    /\ HasSnapshot
    /\ grill_state.system_status = GRILL_MODE_IDLE
    /\ last.result = "raise"

\* the index an evaluation starts with: the value setCurrentStep was given, or
\* num_value
StartIndex ==
    IF last'.value # NoValue THEN last'.value ELSE num_value

\* the step an evaluation that runs the advance check starts on
StartStep == cook_cycle[StartIndex]

\* C14: on an advance check, a step whose use_timer is not true (absent, or
\* present and false) advances by 1 when the snapshot's probe alarm has fired;
\* a step whose use_timer is true advances iff cook_timer_complete is set.
C14_AdvancePriority ==
    [][(last'.op = "evaluate" /\ last'.scanned) =>
        IF Has(StartStep, "use_timer") /\ StartStep.use_timer
        THEN last'.advanced <=> grill_state'.cook_timer_complete
        ELSE grill_state'.probe_alarm_fired => last'.advanced]_vars

\* the hvac cool/off call of a shutdown step
HvacOff == Call("climate.set_hvac_mode", "climate", 0)

\* the position of call c in the sequence of calls q, 0 when it is not there
PositionOf(c, q) ==
    IF \E i \in DOMAIN q : q[i] = c
    THEN CHOOSE i \in DOMAIN q : q[i] = c /\ \A j \in 1..(i - 1) : q[j] # c
    ELSE 0

\* the calls are created, and before the hvac call, for the keys the step has
C17_OthersBeforeHvac(step, q) ==
    LET h == PositionOf(HvacOff, q)
        before(c) == PositionOf(c, q) > 0 /\ PositionOf(c, q) < h
    IN  /\ h = Len(q)
        /\ Has(step, "time_set") =>
               before(Call("number.set_value", "cook_timer",
                           PyRound(step.time_set)))
        /\ Has(step, "probe_set_temp") =>
               before(Call("climate.set_temperature", "probe_p0",
                           step.probe_set_temp))
        /\ Has(step, "set_temp") =>
               before(Call("climate.set_temperature", "climate",
                           step.set_temp))
        /\ \A i \in DOMAIN q :
               q[i].entity \in {"smoke", "keepwarm"} => i < h

\* C17: the evaluation that enters a step with shutdown set creates the hvac
\* cool/off call after the step's other entry calls (timer, probe target, grill
\* target, smoke, keepwarm), returns index 0 and records i_prev = 0.
C17_ShutdownStep ==
    [][(/\ last'.op = "evaluate"
        /\ last'.entered > 0
        /\ Has(cook_cycle'[last'.entered], "shutdown")
        /\ cook_cycle'[last'.entered].shutdown = 1)
       => (/\ C17_OthersBeforeHvac(cook_cycle'[last'.entered], cmds')
           /\ ret' = 0
           /\ num_value' = 0
           /\ old_num_value' = 0)]_vars

\* C17's case: a shutdown step with every other entry key was entered, and the
\* timer, both targets, both switches and then the hvac call were created
C17_Witness ==
    /\ IsEval
    /\ last.entered > 0
    /\ cook_cycle[last.entered] = StepShutdownAll
    /\ Len(cmds) >= 6
    /\ cmds[Len(cmds)] = HvacOff
    /\ \E i \in DOMAIN cmds : cmds[i].entity = "smoke"
    /\ \E i \in DOMAIN cmds : cmds[i].entity = "keepwarm"
    /\ ret = 0
    /\ old_num_value = 0

\* the evaluation created a "raise the grill target by 5" call
Raised == last'.op = "evaluate" /\ last'.raised # NoValue

\* the smaller of two temperatures
MinTemp(a, b) == IF a < b THEN a ELSE b

\* C18: a raise call is created only in an evaluation that ends on the step it
\* started on (it neither advances nor enters a step), and only when the step
\* has both min_delta and max_grill_delta_temp, the current target is below
\* min(max_grill_delta_temp, device maximum) and probe > target - min_delta.
C18_RaiseOnSameStep ==
    [][Raised =>
        /\ ~last'.advanced
        /\ last'.entered = 0
        /\ num_value' = StartIndex
        /\ Has(StartStep, "min_delta")
        /\ Has(StartStep, "max_grill_delta_temp")
        /\ grill_state'.set < MinTemp(StartStep.max_grill_delta_temp,
                                      grill_limits.max_grill_temp)
        /\ grill_state'.probe > grill_state'.set - StartStep.min_delta]_vars

\* What the code does keep: a raise call is created only by the advance check
\* (the evaluation started on a step with i = i_prev), for a step with both
\* keys, a target below the clamped maximum and the probe within min_delta.
RaiseOnlyInScan ==
    [][Raised =>
        /\ last'.scanned
        /\ Has(StartStep, "min_delta")
        /\ Has(StartStep, "max_grill_delta_temp")
        /\ grill_state'.set < MinTemp(StartStep.max_grill_delta_temp,
                                      grill_limits.max_grill_temp)
        /\ grill_state'.probe > grill_state'.set - StartStep.min_delta]_vars

\* C20: the temperature of every raise call is at most the device's maximum
\* grill temperature and at most the step's max_grill_delta_temp.
C20_RaiseWithinMaximum ==
    [][Raised =>
        /\ last'.raised <= grill_limits.max_grill_temp
        /\ last'.raised <= StartStep.max_grill_delta_temp]_vars

\* setCustomCookCycle leaves the step index and the previous index unchanged
C19_IndexesLeftAlone ==
    last'.op = "set_custom_cook" =>
        (num_value' = num_value /\ old_num_value' = old_num_value)

\* the step is the evaluation that follows setCustomCookCycle, not triggered
\* by setCurrentStep, with the index within the new sequence
C19_FollowingEvaluation ==
    /\ last.op = "set_custom_cook"
    /\ last'.op = "evaluate"
    /\ last'.value = NoValue
    /\ num_value <= Len(cook_cycle)

\* the evaluation creates no entry call for the step at the index it starts on
C19_NoEntryAtIndex ==
    (num_value > 0 /\ num_value = old_num_value) => last'.entered # num_value

\* C19 as claimed: setCustomCookCycle leaves both indexes unchanged; if the
\* index is within the new sequence, the following evaluation keeps that index
\* and, when index = i_prev, creates no entry call for the new step at it.
C19_Original ==
    [][/\ C19_IndexesLeftAlone
       /\ C19_FollowingEvaluation =>
              (ret' = num_value /\ C19_NoEntryAtIndex)]_vars

\* the evaluation entered a step that has shutdown set
C19_EnteredShutdown ==
    /\ last'.entered > 0
    /\ Has(cook_cycle'[last'.entered], "shutdown")
    /\ cook_cycle'[last'.entered].shutdown = 1

\* C19 as amended: ... the following evaluation does not reset the index for
\* being out of range and, when index = i_prev, creates no entry call for the
\* new step at it; it returns that index when the snapshot is there, the mode
\* is a cooking one, the advance check (run against the new step when
\* index = i_prev) does not advance and no shutdown step is entered.
C19_ReloadKeepsIndexes ==
    [][/\ C19_IndexesLeftAlone
       /\ C19_FollowingEvaluation =>
              /\ last'.exit # "out_of_range"
              /\ C19_NoEntryAtIndex
              /\ (/\ last'.exit = "done"
                  /\ ~last'.advanced
                  /\ ~C19_EnteredShutdown) => ret' = num_value
              /\ last'.advanced =>
                     (last'.scanned /\ num_value = old_num_value)]_vars

\* C19's case: the first evaluation after setCustomCookCycle found the index
\* on step 1 = i_prev of a sequence whose step 1 has entry keys, kept it and
\* created no call
C19_Witness ==
    /\ IsEval
    /\ last.reloaded
    /\ last.value = NoValue
    /\ num_value = 1
    /\ old_num_value = 1
    /\ ret = 1
    /\ last.entered = 0
    /\ cook_cycle[1] = StepSmoke
    /\ cmds = <<>>

\* C21: an evaluation never modifies the stored step sequence; the steps, each
\* step's max_grill_delta_temp included, change only through setCustomCookCycle.
C21_StepsUnchangedByEvaluation ==
    [][/\ last'.op = "evaluate" => cook_cycle' = cook_cycle
       /\ cook_cycle' # cook_cycle => last'.op = "set_custom_cook"]_vars

\* the index the claim has follow index i in a sequence of n steps: i + 1 up
\* to n - 1, then 0
C22_After(i, n) == IF i + 1 < n THEN i + 1 ELSE 0

\* an evaluation returns the index it started on or the one that follows it,
\* and setCurrentStep(k) returns k up to n - 1 (0 for k = n)
C22_InOrder ==
    last'.op = "evaluate" =>
        LET n == Len(cook_cycle)
        IN  IF last'.value # NoValue
            THEN ret' = IF last'.value < n THEN last'.value ELSE 0
            ELSE num_value > 0 =>
                     ret' \in {num_value, C22_After(num_value, n)}

\* an index that was returned is followed by the next one
C22_Progress ==
    \A j \in 1..(MaxLen + 1) :
        (IsEval /\ ret = j) ~> (ret = C22_After(j, Len(cook_cycle)))

\* no step before the last has shutdown set
C22_OnlyLastShutdown ==
    \A i \in 1..(Len(cook_cycle) - 1) :
        ~(Has(cook_cycle[i], "shutdown") /\ cook_cycle[i].shutdown = 1)

C24_ReadsInRange ==
    (IsEval /\ Has(last, "raced") /\ last.raced) => last.read <= last.len

----------------------------------------------------------------------------
(* The claims about the probe state classifier.                            *)

IsProbeState == probe_last.op = "state"

\* the fell-out threshold of the claims: 215 in Fahrenheit, 102 in Celsius
FellOutThreshold ==
    IF grill_units = "F" THEN 215 ELSE 102

BelowFellOut ==
    grill_accessory # None /\ grill_accessory.get_temp < FellOutThreshold

\* C9 as claimed: once an evaluation has seen alarm_fired true, every later
\* evaluation with the probe below the fell-out threshold returns at_temp,
\* until an evaluation sees the target changed to a nonzero value or the grill
\* mode outside the active-cooking modes.
C9_Original ==
    (IsProbeState /\ alarm_seen /\ BelowFellOut) =>
        probe_last.label = "at_temp"

\* C9 as amended: ... until an evaluation sees the target changed to a
\* nonzero value, the grill mode outside the active-cooking modes or an
\* accessory that reports no alarm_fired, or the sensor is found unavailable.
C9_AlarmLatch ==
    (IsProbeState /\ alarm_held /\ BelowFellOut) =>
        probe_last.label = "at_temp"

\* C9's case: the alarm was seen earlier, this evaluation saw alarm_fired
\* false and returned at_temp
C9_Witness ==
    /\ IsProbeState
    /\ alarm_held
    /\ BelowFellOut
    /\ Has(grill_accessory, "alarm_fired")
    /\ ~grill_accessory.alarm_fired
    /\ probe_last.label = "at_temp"

\* C10: an evaluation with the accessory present and the probe temperature
\* at or above the fell-out threshold returns fell_out, whatever the latch,
\* alarm_fired, the target and the grill mode are.
C10_FellOut ==
    (/\ IsProbeState
     /\ grill_accessory # None
     /\ grill_accessory.get_temp >= FellOutThreshold)
    => probe_last.label = "fell_out"

\* C10's case: fell_out returned while the latch is set and the alarm fired
C10_Witness ==
    /\ IsProbeState
    /\ grill_accessory # None
    /\ grill_accessory.get_temp >= FellOutThreshold
    /\ probe_alarm
    /\ SeesAlarm(grill_accessory)
    /\ probe_last.label = "fell_out"

IsAvailableNow == ProbeAvailableOf(grill_accessory, probe_grill_state)

\* C11: whenever the sensor has become unavailable (no snapshot,
\* grill disconnected, accessory absent or not connected), an alarm latched
\* before does not yield at_temp once the sensor is available again, unless
\* alarm_fired has been seen true again.
C11_Original ==
    (IsProbeState /\ outage_passed /\ IsAvailableNow) =>
        probe_last.label # "at_temp"

\* What the code does keep: the latch is False after every read of available
\* that found the sensor unavailable, and from then on no evaluation returns
\* at_temp unless alarm_fired has been seen true again.
LatchClearedWhenReadUnavailable ==
    /\ (probe_last.op = "available" /\ ~probe_last.available) => ~probe_alarm
    /\ outage_read => ~probe_alarm
    /\ (IsProbeState /\ outage_read) => probe_last.label # "at_temp"

\* the close threshold of the claims: 5 in Fahrenheit, 3 in Celsius
CloseThreshold ==
    IF grill_units = "F" THEN 5 ELSE 3

\* C13: an evaluation that leaves the latch clear, with a nonzero target, an
\* active-cooking mode and the probe below the fell-out threshold (215 F,
\* 102 C), returns close iff probe + closeThreshold >= target and set
\* otherwise, closeThreshold being 5 in Fahrenheit and 3 in Celsius.
C13_CloseOrSet ==
    (/\ IsProbeState
     /\ BelowFellOut
     /\ ~probe_alarm
     /\ grill_accessory.set_temp # 0
     /\ probe_grill_state.system_status \in ActiveModes)
    => probe_last.label =
          IF grill_accessory.get_temp + CloseThreshold >= grill_accessory.set_temp
          THEN "close" ELSE "set"

\* C13's case: probe 100 and target 104 in Celsius, close in Fahrenheit, is set
C13_Witness ==
    /\ IsProbeState
    /\ grill_units = "C"
    /\ ~probe_alarm
    /\ grill_accessory # None
    /\ grill_accessory.get_temp = 100
    /\ grill_accessory.set_temp = 104
    /\ probe_grill_state.system_status \in ActiveModes
    /\ probe_last.label = "set"

----------------------------------------------------------------------------
(* The claims about the heating state classifier.                          *)

IsHeatState == heat_last.op = "state"

\* the evaluation had a snapshot in one of the cook modes
HeatInCookMode ==
    /\ heat_grill_state # None
    /\ heat_grill_state.system_status
           \in {GRILL_MODE_MANUAL_COOK, GRILL_MODE_CUSTOM_COOK}

\* the swing of the claims: 20 in Fahrenheit, 11 in Celsius
Swing == IF heat_units = "F" THEN 20 ELSE 11

\* C12: in a cook mode, from at_temp with the target unchanged, the label is
\* over_temp iff current > target + swing, under_temp iff current < target -
\* swing, and at_temp otherwise; swing is 20 in Fahrenheit and 11 in Celsius.
C12_AtTempBand ==
    (/\ IsHeatState
     /\ HeatInCookMode
     /\ heat_last.from = "at_temp"
     /\ ~heat_last.changed)
    => heat_last.label =
          IF heat_grill_state.grill > heat_grill_state.set + Swing
          THEN "over_temp"
          ELSE IF heat_grill_state.grill < heat_grill_state.set - Swing
          THEN "under_temp"
          ELSE "at_temp"

\* C12's case: from at_temp in Celsius, target 225, the grill at 213 (under
\* the Celsius band, inside the Fahrenheit one) is under_temp
C12_Witness ==
    /\ IsHeatState
    /\ HeatInCookMode
    /\ heat_units = "C"
    /\ heat_last.from = "at_temp"
    /\ ~heat_last.changed
    /\ heat_grill_state.set = 225
    /\ heat_grill_state.grill = 213
    /\ heat_last.label = "under_temp"

\* C15 as claimed: after every evaluation the stored previous label is the
\* label the evaluation returned and the stored previous target is the target
\* it saw, evaluations that returned idle for want of a snapshot included.
C15_Original ==
    IsHeatState =>
        /\ previous_state = heat_last.label
        /\ heat_grill_state # None =>
               heat_previous_target_temp = heat_grill_state.set

\* C15 as amended: after an evaluation with a snapshot the stored previous
\* label is the label returned and the stored previous target the target seen;
\* an evaluation without a snapshot returns idle and leaves both as they were.
C15_CarriedForward ==
    [][heat_last'.op = "state" =>
        IF heat_grill_state # None
        THEN /\ previous_state' = heat_last'.label
             /\ heat_previous_target_temp' = heat_grill_state.set
        ELSE /\ heat_last'.label = "idle"
             /\ previous_state' = previous_state
             /\ heat_previous_target_temp' = heat_previous_target_temp]_vars

\* C15's case: an evaluation without a snapshot returned idle while the stored
\* label stays at_temp and the stored target 225
C15_Witness ==
    /\ IsHeatState
    /\ heat_grill_state = None
    /\ heat_last.label = "idle"
    /\ previous_state = "at_temp"
    /\ heat_previous_target_temp = 225

\* the labels the hysteresis of the cook modes starts from
HysteresisLabels ==
    {"heating", "preheating", "cooling", "at_temp", "under_temp", "over_temp"}

\* C16: in a cook mode, when the target differs from the one the previous
\* evaluation stored, or the stored previous label is none of heating,
\* preheating, cooling, at_temp, under_temp and over_temp, the label is heating
\* if current <= target and cooling otherwise.
C16_TargetChangeOverride ==
    (/\ IsHeatState
     /\ HeatInCookMode
     /\ (heat_last.changed \/ heat_last.from \notin HysteresisLabels))
    => heat_last.label =
          IF heat_grill_state.grill <= heat_grill_state.set
          THEN "heating" ELSE "cooling"

\* C16's case: from at_temp, inside the band of the new target 250, the target
\* change makes the label heating
C16_Witness ==
    /\ IsHeatState
    /\ HeatInCookMode
    /\ heat_last.from = "at_temp"
    /\ heat_last.changed
    /\ heat_grill_state.set = 250
    /\ heat_grill_state.grill = 245
    /\ heat_last.label = "heating"

\* the labels of the hysteresis band
BandLabels == {"at_temp", "under_temp", "over_temp"}

\* C23: in a cook mode with a snapshot and the target unchanged, an evaluation
\* that starts from at_temp, under_temp or over_temp returns one of these three
\* (so once the label is at_temp every later label is one of them), and it
\* never goes from under_temp to over_temp or from over_temp to under_temp.
C23_HysteresisBand ==
    (/\ IsHeatState
     /\ HeatInCookMode
     /\ ~heat_last.changed
     /\ heat_last.from \in BandLabels)
    => /\ heat_last.label \in BandLabels
       /\ ~(heat_last.from = "under_temp" /\ heat_last.label = "over_temp")
       /\ ~(heat_last.from = "over_temp" /\ heat_last.label = "under_temp")

\* C23's case: from under_temp, with the grill above the band (246 > 225 + 20),
\* the label is at_temp, not over_temp
C23_Witness ==
    /\ IsHeatState
    /\ HeatInCookMode
    /\ heat_units = "F"
    /\ ~heat_last.changed
    /\ heat_last.from = "under_temp"
    /\ heat_grill_state.set = 225
    /\ heat_grill_state.grill = 246
    /\ heat_last.label = "at_temp"

====
